---------------------------- MODULE Spec2Model ----------------------------
(***************************************************************************)
(* A model of character_card_utils.py: import and export of Tavern /       *)
(* SillyTavern character cards (base64-encoded JSON in the 'chara' text    *)
(* chunk of a PNG), the field mapping between the Tavern card and the      *)
(* internal record, and the {{char}} / {{user}} placeholder substitution.  *)
(*                                                                         *)
(* Text is a sequence of Unicode code points; bytes are sequences of       *)
(* 0..255.  Each tuple literal carries its text in a comment.  A Python    *)
(* value is a record [t, v]: t is the type ("str", "dict", "list", "int",  *)
(* "bool", "none", "set") and v its content.  A call that may raise        *)
(* evaluates to Return(value) or Raise(type, message).                     *)
(***************************************************************************)
EXTENDS Integers, Sequences, FiniteSets, TLC

VARIABLES
    call,     \* the call in progress: the function's name and its arguments
    result,   \* what that call returned or raised
    origin    \* the call whose result was passed on to this one (a pipeline)

vars == <<call, result, origin>>

---------------------------------------------------------------------------
(* Python values and outcomes *)

Str(s) == [t |-> "str", v |-> s]

None == [t |-> "none", v |-> <<>>]

Dict(f) == [t |-> "dict", v |-> f]

List(xs) == [t |-> "list", v |-> xs]

PyInt(n) == [t |-> "int", v |-> n]

PyBool(b) == [t |-> "bool", v |-> b]

PySet == [t |-> "set", v |-> <<>>]

EmptyMap == [k \in {} |-> None]

Return(x) == [raised |-> FALSE, value |-> x]

Raise(type, message) == [raised |-> TRUE, type |-> type, msg |-> message]

\* Python truthiness: bool(x).
Truthy(x) ==
    CASE x.t = "str" -> x.v # <<>>
      [] x.t = "none" -> FALSE
      [] x.t = "dict" -> DOMAIN x.v # {}
      [] x.t = "list" -> x.v # <<>>
      [] x.t = "int" -> x.v # 0
      [] x.t = "bool" -> x.v
      [] OTHER -> FALSE

\* An assignment statement followed by the statements after it: the value is
\* computed once, bound to a name, and the rest runs with that binding.
With(value, Rest(_)) == CHOOSE r \in { Rest(v) : v \in {value} } : TRUE

\* dict.get(key, default)
Get(d, key, default) == IF key \in DOMAIN d.v THEN d.v[key] ELSE default

---------------------------------------------------------------------------
(* re.sub(pattern, repl, text, flags=re.IGNORECASE) for a literal pattern *)

\* sre's case-insensitive comparison of a text character with a pattern
\* letter: ASCII upper case folds to lower case, and U+017F (long s) is
\* equivalent to 's'.
FoldCase(c) ==
    IF c \in 65..90 THEN c + 32 ELSE IF c = 383 THEN 115 ELSE c

\* Whether the literal pattern `token` matches `text` at index i.
MatchAt(text, i, token) ==
    /\ i + Len(token) - 1 <= Len(text)
    /\ \A k \in 1..Len(token) : FoldCase(text[i + k - 1]) = token[k]

IsOctDigit(c) == c \in 48..55

IsDigit(c) == c \in 48..57

IsAsciiLetter(c) == c \in 65..90 \/ c \in 97..122

\* re's ESCAPES table for a replacement template: \a \b \f \n \r \t \v \\
TemplateEscape(c) ==
    CASE c = 97 -> 7
      [] c = 98 -> 8
      [] c = 102 -> 12
      [] c = 110 -> 10
      [] c = 114 -> 13
      [] c = 116 -> 9
      [] c = 118 -> 11
      [] c = 92 -> 92
      [] OTHER -> -1

\* Index of the first '>' of s at or after i, or 0.
RECURSIVE FindGt(_, _)
FindGt(s, i) ==
    IF i > Len(s) THEN 0 ELSE IF s[i] = 62 THEN i ELSE FindGt(s, i + 1)

\* The value of a run of decimal digits, or -1 when s is empty or holds
\* anything else.
RECURSIVE DecimalValue(_, _, _)
DecimalValue(s, i, acc) ==
    IF s = <<>> THEN -1
    ELSE IF i > Len(s) THEN acc
    ELSE IF ~IsDigit(s[i]) THEN -1
    ELSE DecimalValue(s, i + 1, acc * 10 + (s[i] - 48))

GroupRef == -1  \* a template item standing for the whole match, \g<0>

\* sre_parse.parse_template over a pattern with no groups: the template as a
\* sequence of literal code points and GroupRef items, or the error raised.
RECURSIVE parse_template(_, _, _)
parse_template(repl, i, acc) ==
    IF i > Len(repl) THEN Return(acc)
    ELSE IF repl[i] # 92 THEN parse_template(repl, i + 1, Append(acc, repl[i]))
    ELSE IF i = Len(repl) THEN Raise("error", "bad escape (end of pattern)")
    ELSE LET c == repl[i + 1] IN
        IF c = 103 THEN    \* \g<name>
            IF i + 2 > Len(repl) \/ repl[i + 2] # 60
            THEN Raise("error", "missing <")
            ELSE LET close == FindGt(repl, i + 3) IN
                 IF close = 0
                 THEN Raise("error", "missing >, unterminated name")
                 ELSE IF close = i + 3
                 THEN Raise("error", "missing group name")
                 ELSE LET name == SubSeq(repl, i + 3, close - 1)
                          index == DecimalValue(name, 1, 0)
                      IN  IF IsAsciiLetter(name[1]) \/ name[1] = 95
                          THEN Raise("IndexError", "unknown group name")
                          ELSE IF index < 0
                          THEN Raise("error", "bad character in group name")
                          ELSE IF index > 0
                          THEN Raise("error", "invalid group reference")
                          ELSE parse_template(repl, close + 1,
                                              Append(acc, GroupRef))
        ELSE IF c = 48 THEN    \* \0 and up to two more octal digits
            LET n1 == i + 2 <= Len(repl) /\ IsOctDigit(repl[i + 2])
                n2 == n1 /\ i + 3 <= Len(repl) /\ IsOctDigit(repl[i + 3])
                val == IF n2 THEN (repl[i + 2] - 48) * 8 + (repl[i + 3] - 48)
                       ELSE IF n1 THEN repl[i + 2] - 48 ELSE 0
                len == IF n2 THEN 4 ELSE IF n1 THEN 3 ELSE 2
            IN  parse_template(repl, i + len, Append(acc, val % 256))
        ELSE IF IsDigit(c) THEN
            LET d2 == i + 2 <= Len(repl) /\ IsDigit(repl[i + 2])
                oct == /\ d2
                       /\ IsOctDigit(c)
                       /\ IsOctDigit(repl[i + 2])
                       /\ i + 3 <= Len(repl)
                       /\ IsOctDigit(repl[i + 3])
                val == (c - 48) * 64 + (repl[i + 2] - 48) * 8
                       + (repl[i + 3] - 48)
            IN  IF oct
                THEN IF val > 255
                     THEN Raise("error", "octal escape value outside of range 0-0o377")
                     ELSE parse_template(repl, i + 4, Append(acc, val))
                ELSE Raise("error", "invalid group reference")
        ELSE IF TemplateEscape(c) >= 0
        THEN parse_template(repl, i + 2, Append(acc, TemplateEscape(c)))
        ELSE IF IsAsciiLetter(c)
        THEN Raise("error", "bad escape")
        ELSE parse_template(repl, i + 2, acc \o <<92, c>>)

\* The template expanded for one match.
RECURSIVE Expand(_, _, _)
Expand(template, matched, k) ==
    IF k > Len(template) THEN <<>>
    ELSE (IF template[k] = GroupRef THEN matched ELSE <<template[k]>>)
         \o Expand(template, matched, k + 1)

\* The left-to-right scan of re.sub: every non-overlapping match of the token
\* is replaced by the expanded template, the rest is copied.
RECURSIVE Scan(_, _, _, _)
Scan(text, i, token, template) ==
    IF i > Len(text) THEN <<>>
    ELSE IF MatchAt(text, i, token)
    THEN Expand(template, SubSeq(text, i, i + Len(token) - 1), 1)
         \o Scan(text, i + Len(token), token, template)
    ELSE <<text[i]>> \o Scan(text, i + 1, token, template)

\* re.sub(token, repl, text, flags=re.IGNORECASE); repl is a Python value.
re_sub(token, repl, text) ==
    IF repl.t # "str"
    THEN Raise("TypeError", "decoding to str: need a bytes-like object")
    ELSE IF text.t # "str"
    THEN Raise("TypeError", "expected string or bytes-like object")
    ELSE With(parse_template(repl.v, 1, <<>>), LAMBDA template :
         IF template.raised THEN template
         ELSE Return(Str(Scan(text.v, 1, token, template.value))))

---------------------------------------------------------------------------
(* replace_placeholders *)

TokenChar == <<123, 123, 99, 104, 97, 114, 125, 125>> (* '{{char}}' *)

TokenUser == <<123, 123, 117, 115, 101, 114, 125, 125>> (* '{{user}}' *)

replace_placeholders(text, char_name, user_name) ==
    IF ~Truthy(text) THEN Return(text)
    ELSE With(re_sub(TokenChar, char_name, text), LAMBDA first :
         IF first.raised THEN first
         ELSE re_sub(TokenUser, user_name, first.value))

---------------------------------------------------------------------------
(* map_tavern_to_internal *)

K_data == <<100, 97, 116, 97>> (* 'data' *)

K_name == <<110, 97, 109, 101>> (* 'name' *)

K_personality == <<112, 101, 114, 115, 111, 110, 97, 108, 105, 116, 121>> (* 'personality' *)

K_description == <<100, 101, 115, 99, 114, 105, 112, 116, 105, 111, 110>> (* 'description' *)

K_first_mes == <<102, 105, 114, 115, 116, 95, 109, 101, 115>> (* 'first_mes' *)

K_greeting == <<103, 114, 101, 101, 116, 105, 110, 103>> (* 'greeting' *)

K_scenario == <<115, 99, 101, 110, 97, 114, 105, 111>> (* 'scenario' *)

K_mes_example == <<109, 101, 115, 95, 101, 120, 97, 109, 112, 108, 101>> (* 'mes_example' *)

K_ai_name == <<97, 105, 95, 110, 97, 109, 101>> (* 'ai_name' *)

K_persona_desc == <<112, 101, 114, 115, 111, 110, 97, 95, 100, 101, 115, 99>> (* 'persona_desc' *)

K_raw_card == <<114, 97, 119, 95, 99, 97, 114, 100>> (* 'raw_card' *)

DefaultAiName == <<66, 79, 84>> (* 'BOT' *)

DefaultPersona == <<65, 110, 32, 65, 73, 32, 99, 111, 109, 112, 97, 110, 105, 111, 110>> (* 'An AI companion' *)

IsSubstring(key, s) ==
    \E i \in 1..(Len(s) - Len(key) + 1) : SubSeq(s, i, i + Len(key) - 1) = key

\* key in x
Contains(x, key) ==
    CASE x.t = "dict" -> Return(key \in DOMAIN x.v)
      [] x.t = "list" -> Return(\E i \in 1..Len(x.v) : x.v[i] = Str(key))
      [] x.t = "str" -> Return(IsSubstring(key, x.v))
      [] x.t = "set" -> Return(FALSE)
      [] OTHER -> Raise("TypeError", "argument is not iterable")

\* x[key] for a string key
Subscript(x, key) ==
    CASE x.t = "dict" ->
             IF key \in DOMAIN x.v THEN Return(x.v[key])
             ELSE Raise("KeyError", "key")
      [] x.t = "list" ->
             Raise("TypeError", "list indices must be integers or slices, not str")
      [] x.t = "str" ->
             Raise("TypeError", "string indices must be integers, not 'str'")
      [] OTHER -> Raise("TypeError", "object is not subscriptable")

\* ' '.join(parts)
RECURSIVE JoinWithSpace(_, _)
JoinWithSpace(parts, i) ==
    IF i > Len(parts) THEN <<>>
    ELSE parts[i].v \o (IF i < Len(parts) THEN <<32>> ELSE <<>>)
         \o JoinWithSpace(parts, i + 1)

str_join(parts) ==
    IF \E i \in 1..Len(parts) : parts[i].t # "str"
    THEN Raise("TypeError", "sequence item: expected str instance")
    ELSE Return(Str(JoinWithSpace(parts, 1)))

\* A faulty unwrapping, which keeps the card as it came.
UnwrapNever(tavern_card) == Return(tavern_card)

\* Lines 113-115: a card wrapped in a 'data' field is replaced by that field.
Unwrap(tavern_card) ==
    LET wrapped == Contains(tavern_card, K_data) IN
    IF wrapped.raised THEN wrapped
    ELSE IF wrapped.value THEN Subscript(tavern_card, K_data)
    ELSE Return(tavern_card)

\* A faulty collection of the parts, description first.
PersonaPartsSwapped(card) ==
    (IF K_description \in DOMAIN card.v /\ Truthy(card.v[K_description])
     THEN <<card.v[K_description]>> ELSE <<>>)
    \o (IF K_personality \in DOMAIN card.v /\ Truthy(card.v[K_personality])
        THEN <<card.v[K_personality]>> ELSE <<>>)

\* Lines 121-127: the truthy values of personality and description, in order.
PersonaParts(card) ==
    (IF K_personality \in DOMAIN card.v /\ Truthy(card.v[K_personality])
     THEN <<card.v[K_personality]>> ELSE <<>>)
    \o (IF K_description \in DOMAIN card.v /\ Truthy(card.v[K_description])
        THEN <<card.v[K_description]>> ELSE <<>>)

\* Line 129
JoinedPersona(card) ==
    IF PersonaParts(card) # <<>> THEN str_join(PersonaParts(card))
    ELSE Return(Str(DefaultPersona))

\* Line 153: what the result keeps under 'raw_card'.
RawCardOf(card) == card

map_tavern_to_internal(tavern_card, user_name) ==
    With(Unwrap(tavern_card), LAMBDA unwrapped :
    IF unwrapped.raised THEN unwrapped
    ELSE With(unwrapped.value, LAMBDA card :
    IF card.t # "dict"
    THEN Raise("AttributeError", "object has no attribute 'get'")
    ELSE With(Get(card, K_name, Str(DefaultAiName)), LAMBDA ai_name :
         With(JoinedPersona(card), LAMBDA joined :
    IF joined.raised THEN joined
    ELSE With(replace_placeholders(joined.value, ai_name, user_name),
              LAMBDA persona_desc :
    IF persona_desc.raised THEN persona_desc
    ELSE With(replace_placeholders(
                  Get(card, K_first_mes, Get(card, K_greeting, Str(<<>>))),
                  ai_name, user_name),
              LAMBDA greeting :
    IF greeting.raised THEN greeting
    ELSE With(replace_placeholders(Get(card, K_scenario, Str(<<>>)),
                                   ai_name, user_name),
              LAMBDA scenario :
    IF scenario.raised THEN scenario
    ELSE With(replace_placeholders(Get(card, K_mes_example, Str(<<>>)),
                                   ai_name, user_name),
              LAMBDA mes_example :
    IF mes_example.raised THEN mes_example
    ELSE Return(Dict(
             (K_ai_name :> ai_name)
             @@ (K_persona_desc :> persona_desc.value)
             @@ (K_greeting :> greeting.value)
             @@ (K_scenario :> scenario.value)
             @@ (K_mes_example :> mes_example.value)
             @@ (K_raw_card :> RawCardOf(card))))))))))))

---------------------------------------------------------------------------
(* map_internal_to_tavern *)

K_creator_notes == <<99, 114, 101, 97, 116, 111, 114, 95, 110, 111, 116, 101, 115>> (* 'creator_notes' *)

K_system_prompt == <<115, 121, 115, 116, 101, 109, 95, 112, 114, 111, 109, 112, 116>> (* 'system_prompt' *)

K_post_history_instructions == <<112, 111, 115, 116, 95, 104, 105, 115, 116, 111, 114, 121, 95, 105, 110, 115, 116, 114, 117, 99, 116, 105, 111, 110, 115>> (* 'post_history_instructions' *)

K_tags == <<116, 97, 103, 115>> (* 'tags' *)

K_creator == <<99, 114, 101, 97, 116, 111, 114>> (* 'creator' *)

K_character_version == <<99, 104, 97, 114, 97, 99, 116, 101, 114, 95, 118, 101, 114, 115, 105, 111, 110>> (* 'character_version' *)

K_spec == <<115, 112, 101, 99>> (* 'spec' *)

K_spec_version == <<115, 112, 101, 99, 95, 118, 101, 114, 115, 105, 111, 110>> (* 'spec_version' *)

\* The keys of the exported card, in the order the dictionary lists them.
TavernKeys ==
    << K_name, K_description, K_personality, K_first_mes, K_scenario,
       K_mes_example, K_creator_notes, K_system_prompt,
       K_post_history_instructions, K_tags, K_creator, K_character_version,
       K_spec, K_spec_version >>

\* Lines 212-213: the field of the record exported as description and as
\* personality.
\* A faulty export of the persona, which leaves it out.
ExportedPersonaEmpty(character_data) == Str(<<>>)

\* Lines 213-214: what is exported as description and as personality.
ExportedPersona(character_data) == Get(character_data, K_persona_desc, Str(<<>>))

map_internal_to_tavern(character_data) ==
    IF character_data.t # "dict"
    THEN Raise("AttributeError", "object has no attribute 'get'")
    ELSE Return(Dict(
             (K_name :> Get(character_data, K_ai_name, Str(DefaultAiName)))
             @@ (K_description :> ExportedPersona(character_data))
             @@ (K_personality :> ExportedPersona(character_data))
             @@ (K_first_mes :> Get(character_data, K_greeting, Str(<<>>)))
             @@ (K_scenario :> Get(character_data, K_scenario, Str(<<>>)))
             @@ (K_mes_example :> Get(character_data, K_mes_example, Str(<<>>)))
             @@ (K_creator_notes :> Str(<<69, 120, 112, 111, 114, 116, 101, 100, 32, 102, 114, 111, 109, 32, 66, 114, 97, 105, 110, 68, 97, 110, 99, 101, 118, 50>> (* 'Exported from BrainDancev2' *)))
             @@ (K_system_prompt :> Str(<<>>))
             @@ (K_post_history_instructions :> Str(<<>>))
             @@ (K_tags :> List(<<>>))
             @@ (K_creator :> Str(<<66, 114, 97, 105, 110, 68, 97, 110, 99, 101, 118, 50>> (* 'BrainDancev2' *)))
             @@ (K_character_version :> Str(<<49, 46, 48>> (* '1.0' *)))
             @@ (K_spec :> Str(<<99, 104, 97, 114, 97, 95, 99, 97, 114, 100, 95, 118, 50>> (* 'chara_card_v2' *)))
             @@ (K_spec_version :> Str(<<50, 46, 48>> (* '2.0' *)))))

---------------------------------------------------------------------------
(* Card codec, encoding: json.dumps(card, ensure_ascii=False), *)
(* str.encode('utf-8'), base64.b64encode                        *)

Min(a, b) == IF a < b THEN a ELSE b

\* The concatenation of parts[lo..hi], by halves.
RECURSIVE Flatten(_, _, _)
Flatten(parts, lo, hi) ==
    IF lo > hi THEN <<>>
    ELSE IF lo = hi THEN parts[lo]
    ELSE LET mid == (lo + hi) \div 2 IN
         Flatten(parts, lo, mid) \o Flatten(parts, mid + 1, hi)

HexDigit(n) == IF n < 10 THEN 48 + n ELSE 87 + n

\* json.encoder's ESCAPE_DCT: the quote, the backslash and the control
\* characters are escaped; everything else is written as it is.
JsonEscapeChar(c) ==
    CASE c = 34 -> <<92, 34>> (* '\\\"' *)
      [] c = 92 -> <<92, 92>> (* '\\\\' *)
      [] c = 10 -> <<92, 110>> (* '\\n' *)
      [] c = 13 -> <<92, 114>> (* '\\r' *)
      [] c = 9 -> <<92, 116>> (* '\\t' *)
      [] c = 8 -> <<92, 98>> (* '\\b' *)
      [] c = 12 -> <<92, 102>> (* '\\f' *)
      [] c < 32 -> <<92, 117, 48, 48>> (* '\\u00' *) \o <<HexDigit(c \div 16), HexDigit(c % 16)>>
      [] OTHER -> <<c>>

JsonString(s) ==
    <<34>> \o Flatten([i \in 1..Len(s) |-> JsonEscapeChar(s[i])], 1, Len(s))
    \o <<34>>

RECURSIVE DecimalDigits(_)
DecimalDigits(n) ==
    IF n < 10 THEN <<48 + n>>
    ELSE Append(DecimalDigits(n \div 10), 48 + (n % 10))

\* The keys of a dictionary in the order json.dumps writes them (the order of
\* insertion): TavernKeys for the exported card, one fixed order otherwise.
DictKeyOrder(d) ==
    IF DOMAIN d.v = { TavernKeys[i] : i \in 1..Len(TavernKeys) }
    THEN TavernKeys
    ELSE CHOOSE order \in [1..Cardinality(DOMAIN d.v) -> DOMAIN d.v] :
             \A i, j \in DOMAIN order : i # j => order[i] # order[j]

\* The parts joined with ', ', or the first error among them.
JoinItems(items) ==
    IF \E i \in 1..Len(items) : items[i].raised
    THEN items[CHOOSE i \in 1..Len(items) :
                   /\ items[i].raised
                   /\ \A j \in 1..(i - 1) : ~items[j].raised]
    ELSE Return(Flatten(
             [i \in 1..Len(items) |->
                 (IF i > 1 THEN <<44, 32>> (* ', ' *) ELSE <<>>) \o items[i].value],
             1, Len(items)))

RECURSIVE json_dumps(_)
json_dumps(x) ==
    CASE x.t = "str" -> Return(JsonString(x.v))
      [] x.t = "none" -> Return(<<110, 117, 108, 108>> (* 'null' *))
      [] x.t = "bool" -> Return(IF x.v THEN <<116, 114, 117, 101>> (* 'true' *) ELSE <<102, 97, 108, 115, 101>> (* 'false' *))
      [] x.t = "int" ->
             Return(IF x.v < 0 THEN <<45>> \o DecimalDigits(0 - x.v)
                    ELSE DecimalDigits(x.v))
      [] x.t = "float" -> Return(x.v)
      [] x.t = "list" ->
             LET body == JoinItems([i \in 1..Len(x.v) |-> json_dumps(x.v[i])])
             IN  IF body.raised THEN body
                 ELSE Return(<<91>> \o body.value \o <<93>>)
      [] x.t = "dict" ->
             LET order == DictKeyOrder(x)
                 body == JoinItems(
                     [i \in 1..Len(order) |->
                         LET val == json_dumps(x.v[order[i]]) IN
                         IF val.raised THEN val
                         ELSE Return(JsonString(order[i]) \o <<58, 32>> (* ': ' *)
                                     \o val.value)])
             IN  IF body.raised THEN body
                 ELSE Return(<<123>> \o body.value \o <<125>>)
      [] OTHER -> Raise("TypeError", "Object is not JSON serializable")

\* The UTF-8 bytes of one code point.
Utf8Char(c) ==
    IF c < 128 THEN <<c>>
    ELSE IF c < 2048 THEN <<192 + (c \div 64), 128 + (c % 64)>>
    ELSE IF c < 65536
    THEN <<224 + (c \div 4096), 128 + ((c \div 64) % 64), 128 + (c % 64)>>
    ELSE <<240 + (c \div 262144), 128 + ((c \div 4096) % 64),
           128 + ((c \div 64) % 64), 128 + (c % 64)>>

IsSurrogate(c) == c \in 55296..57343

\* s.encode('utf-8')
utf8_encode(s) ==
    IF \E i \in 1..Len(s) : IsSurrogate(s[i])
    THEN Raise("UnicodeEncodeError",
               "'utf-8' codec can't encode character: surrogates not allowed")
    ELSE Return(Flatten([i \in 1..Len(s) |-> Utf8Char(s[i])], 1, Len(s)))

\* The character of the base64 alphabet for a value of 0..63.
B64Char(n) ==
    IF n < 26 THEN 65 + n
    ELSE IF n < 52 THEN 97 + (n - 26)
    ELSE IF n < 62 THEN 48 + (n - 52)
    ELSE IF n = 62 THEN 43 ELSE 47

\* base64.b64encode(bytes).decode('ascii'): each group of three bytes becomes
\* four characters, the last group padded with '='.
b64encode(bytes) ==
    LET n == Len(bytes)
        byte(k) == IF k <= n THEN bytes[k] ELSE 0
    IN  [j \in 1..(4 * ((n + 2) \div 3)) |->
            LET g == 3 * ((j - 1) \div 4)
                k == (j - 1) % 4
            IN  CASE k = 0 -> B64Char(byte(g + 1) \div 4)
                  [] k = 1 -> B64Char(((byte(g + 1) % 4) * 16)
                                      + (byte(g + 2) \div 16))
                  [] k = 2 -> IF g + 2 > n THEN 61
                              ELSE B64Char(((byte(g + 2) % 16) * 4)
                                           + (byte(g + 3) \div 64))
                  [] OTHER -> IF g + 3 > n THEN 61
                              ELSE B64Char(byte(g + 3) % 64)]

\* Lines 177-178: the card as the text of the 'chara' chunk.
encode_card(tavern_card) ==
    LET card_json == json_dumps(tavern_card) IN
    IF card_json.raised THEN card_json
    ELSE LET bytes == utf8_encode(card_json.value) IN
         IF bytes.raised THEN bytes
         ELSE Return(b64encode(bytes.value))

---------------------------------------------------------------------------
(* Card codec, decoding: base64.b64decode, then json.loads of the bytes *)

\* The value of a character of the base64 alphabet, or -1.
B64Value(c) ==
    IF c \in 65..90 THEN c - 65
    ELSE IF c \in 97..122 THEN c - 97 + 26
    ELSE IF c \in 48..57 THEN c - 48 + 52
    ELSE IF c = 43 THEN 62
    ELSE IF c = 47 THEN 63
    ELSE -1

\* One character of binascii.a2b_base64 (not strict): a character outside the
\* alphabet is skipped, a complete padding ends the data.
B64Step(st, c) ==
    IF c = 61 THEN
        IF st.quad_pos >= 2 /\ st.quad_pos + st.pads + 1 >= 4
        THEN [st EXCEPT !.pads = @ + 1, !.done = TRUE]
        ELSE IF st.quad_pos >= 2 THEN [st EXCEPT !.pads = @ + 1]
        ELSE st
    ELSE IF B64Value(c) < 0 THEN st
    ELSE LET v == B64Value(c) IN
        CASE st.quad_pos = 0 ->
                 [st EXCEPT !.pads = 0, !.quad_pos = 1, !.leftchar = v]
          [] st.quad_pos = 1 ->
                 [st EXCEPT !.pads = 0, !.quad_pos = 2,
                            !.out = Append(@, (st.leftchar * 4) + (v \div 16)),
                            !.leftchar = v % 16]
          [] st.quad_pos = 2 ->
                 [st EXCEPT !.pads = 0, !.quad_pos = 3,
                            !.out = Append(@, (st.leftchar * 16) + (v \div 4)),
                            !.leftchar = v % 4]
          [] OTHER ->
                 [st EXCEPT !.pads = 0, !.quad_pos = 0,
                            !.out = Append(@, (st.leftchar * 64) + v),
                            !.leftchar = 0]

\* The characters s[i..hi], then the whole of s in blocks of 32 (a fold of
\* B64Step over s, cut into blocks to keep the evaluation shallow).
RECURSIVE B64Block(_, _, _, _)
B64Block(s, i, hi, st) ==
    IF st.done \/ i > hi THEN st ELSE B64Block(s, i + 1, hi, B64Step(st, s[i]))

RECURSIVE B64Blocks(_, _, _)
B64Blocks(s, i, st) ==
    IF st.done \/ i > Len(s) THEN st
    ELSE B64Blocks(s, i + 32, B64Block(s, i, Min(i + 31, Len(s)), st))

\* base64.b64decode(s) of a str
b64decode(s) ==
    IF \E i \in 1..Len(s) : s[i] > 127
    THEN Raise("ValueError",
               "string argument should contain only ASCII characters")
    ELSE LET st == B64Blocks(s, 1, [quad_pos |-> 0, leftchar |-> 0, pads |-> 0,
                                    out |-> <<>>, done |-> FALSE])
         IN  IF st.done \/ st.quad_pos = 0 THEN Return(st.out)
             ELSE IF st.quad_pos = 1
             THEN Raise("Error", "Invalid base64-encoded string: number of data characters cannot be 1 more than a multiple of 4")
             ELSE Raise("Error", "Incorrect padding")

\* One byte of the UTF-8 decoder: need counts the continuation bytes the
\* character still lacks, low is the least code point its length may encode.
Utf8Step(st, b) ==
    IF st.need = 0 THEN
        IF b < 128 THEN [st EXCEPT !.out = Append(@, b)]
        ELSE IF b \in 194..223
        THEN [st EXCEPT !.need = 1, !.cp = b - 192, !.low = 128]
        ELSE IF b \in 224..239
        THEN [st EXCEPT !.need = 2, !.cp = b - 224, !.low = 2048]
        ELSE IF b \in 240..244
        THEN [st EXCEPT !.need = 3, !.cp = b - 240, !.low = 65536]
        ELSE [st EXCEPT !.bad = TRUE]
    ELSE IF b \notin 128..191 THEN [st EXCEPT !.bad = TRUE]
    ELSE LET cp == (st.cp * 64) + (b - 128) IN
         IF st.need > 1 THEN [st EXCEPT !.need = @ - 1, !.cp = cp]
         ELSE IF cp < st.low \/ cp > 1114111 THEN [st EXCEPT !.bad = TRUE]
         ELSE [st EXCEPT !.need = 0, !.cp = 0, !.out = Append(@, cp)]

RECURSIVE Utf8Block(_, _, _, _)
Utf8Block(bytes, i, hi, st) ==
    IF st.bad \/ i > hi THEN st
    ELSE Utf8Block(bytes, i + 1, hi, Utf8Step(st, bytes[i]))

RECURSIVE Utf8Blocks(_, _, _)
Utf8Blocks(bytes, i, st) ==
    IF st.bad \/ i > Len(bytes) THEN st
    ELSE Utf8Blocks(bytes, i + 32,
                    Utf8Block(bytes, i, Min(i + 31, Len(bytes)), st))

\* bytes.decode('utf-8', 'surrogatepass'), as json.loads decodes its input
utf8_decode(bytes) ==
    LET st == Utf8Blocks(bytes, 1, [need |-> 0, cp |-> 0, low |-> 0,
                                    out |-> <<>>, bad |-> FALSE])
    IN  IF st.bad \/ st.need > 0
        THEN Raise("UnicodeDecodeError", "'utf-8' codec can't decode byte")
        ELSE Return(st.out)

\* The outcome of parsing one JSON value: the value and the index after it.
Parsed(x, next) == [raised |-> FALSE, value |-> x, next |-> next]

JsonError(message) == Raise("JSONDecodeError", message)

IsWhitespace(c) == c \in {32, 9, 10, 13}

RECURSIVE SkipWhitespace(_, _)
SkipWhitespace(s, i) ==
    IF i <= Len(s) /\ IsWhitespace(s[i]) THEN SkipWhitespace(s, i + 1) ELSE i

\* Whether the literal `word` stands in s at index i.
StartsWith(s, i, word) ==
    /\ i + Len(word) - 1 <= Len(s)
    /\ SubSeq(s, i, i + Len(word) - 1) = word

HexValue(c) ==
    IF c \in 48..57 THEN c - 48
    ELSE IF c \in 97..102 THEN c - 87
    ELSE IF c \in 65..70 THEN c - 55
    ELSE -1

\* The four hex digits at s[i..i+3] as a number, or -1.
Hex4(s, i) ==
    IF i + 3 > Len(s) \/ \E k \in 0..3 : HexValue(s[i + k]) < 0 THEN -1
    ELSE (HexValue(s[i]) * 4096) + (HexValue(s[i + 1]) * 256)
         + (HexValue(s[i + 2]) * 16) + HexValue(s[i + 3])

\* json.decoder's BACKSLASH table
JsonUnescape(c) ==
    CASE c = 34 -> 34
      [] c = 92 -> 92
      [] c = 47 -> 47
      [] c = 98 -> 8
      [] c = 102 -> 12
      [] c = 110 -> 10
      [] c = 114 -> 13
      [] c = 116 -> 9
      [] OTHER -> -1

\* scanstring (strict) from the character after the opening quote.
RECURSIVE ParseString(_, _, _)
ParseString(s, i, acc) ==
    IF i > Len(s) THEN JsonError("Unterminated string starting at")
    ELSE IF s[i] = 34 THEN Parsed(Str(acc), i + 1)
    ELSE IF s[i] < 32 THEN JsonError("Invalid control character at")
    ELSE IF s[i] # 92 THEN ParseString(s, i + 1, Append(acc, s[i]))
    ELSE IF i + 1 > Len(s) THEN JsonError("Unterminated string starting at")
    ELSE IF s[i + 1] = 117 THEN
        LET uni == Hex4(s, i + 2)
            low == IF StartsWith(s, i + 6, <<92, 117>>) THEN Hex4(s, i + 8)
                   ELSE -1
        IN  IF uni < 0 THEN JsonError("Invalid \\uXXXX escape")
            ELSE IF uni \in 55296..56319 /\ low \in 56320..57343
            THEN ParseString(s, i + 12,
                     Append(acc, 65536 + ((uni - 55296) * 1024)
                                 + (low - 56320)))
            ELSE ParseString(s, i + 6, Append(acc, uni))
    ELSE IF JsonUnescape(s[i + 1]) < 0 THEN JsonError("Invalid \\escape")
    ELSE ParseString(s, i + 2, Append(acc, JsonUnescape(s[i + 1])))

\* The index after the run of digits that starts at i.
RECURSIVE SkipDigits(_, _)
SkipDigits(s, i) ==
    IF i <= Len(s) /\ IsDigit(s[i]) THEN SkipDigits(s, i + 1) ELSE i

\* NUMBER_RE: -?(0|[1-9]\d*)(\.\d+)?([eE][-+]?\d+)? at index i.
ParseNumber(s, i) ==
    LET int0 == IF i <= Len(s) /\ s[i] = 45 THEN i + 1 ELSE i
        int1 == IF int0 <= Len(s) /\ s[int0] = 48 THEN int0 + 1
                ELSE SkipDigits(s, int0)
        frac1 == IF /\ int1 + 1 <= Len(s)
                    /\ s[int1] = 46
                    /\ IsDigit(s[int1 + 1])
                 THEN SkipDigits(s, int1 + 1) ELSE int1
        sign == IF frac1 + 1 <= Len(s) /\ s[frac1 + 1] \in {43, 45}
                THEN frac1 + 2 ELSE frac1 + 1
        exp1 == IF /\ frac1 <= Len(s)
                   /\ s[frac1] \in {69, 101}
                   /\ sign <= Len(s)
                   /\ IsDigit(s[sign])
                THEN SkipDigits(s, sign) ELSE frac1
        magnitude == DecimalValue(SubSeq(s, int0, int1 - 1), 1, 0)
    IN  IF int1 = int0 THEN JsonError("Expecting value")
        ELSE IF exp1 > int1
        THEN Parsed([t |-> "float", v |-> SubSeq(s, i, exp1 - 1)], exp1)
        ELSE Parsed(PyInt(IF int0 > i THEN 0 - magnitude ELSE magnitude), int1)

RECURSIVE ParseValue(_, _)
RECURSIVE ParseMembers(_, _, _)
RECURSIVE ParseItems(_, _, _)

\* JSONObject after a member separator: "key": value pairs up to the '}'.
ParseMembers(s, i, acc) ==
    IF i > Len(s) \/ s[i] # 34
    THEN JsonError("Expecting property name enclosed in double quotes")
    ELSE LET key == ParseString(s, i + 1, <<>>) IN
    IF key.raised THEN key
    ELSE LET colon == SkipWhitespace(s, key.next) IN
    IF colon > Len(s) \/ s[colon] # 58
    THEN JsonError("Expecting ':' delimiter")
    ELSE LET val == ParseValue(s, SkipWhitespace(s, colon + 1)) IN
    IF val.raised THEN val
    ELSE LET after == SkipWhitespace(s, val.next)
             pairs == (key.value.v :> val.value) @@ acc
         IN
    IF after <= Len(s) /\ s[after] = 125 THEN Parsed(Dict(pairs), after + 1)
    ELSE IF after > Len(s) \/ s[after] # 44
    THEN JsonError("Expecting ',' delimiter")
    ELSE ParseMembers(s, SkipWhitespace(s, after + 1), pairs)

\* JSONArray after an item separator: values up to the ']'.
ParseItems(s, i, acc) ==
    LET val == ParseValue(s, i) IN
    IF val.raised THEN val
    ELSE LET after == SkipWhitespace(s, val.next)
             items == Append(acc, val.value)
         IN
    IF after <= Len(s) /\ s[after] = 93 THEN Parsed(List(items), after + 1)
    ELSE IF after > Len(s) \/ s[after] # 44
    THEN JsonError("Expecting ',' delimiter")
    ELSE ParseItems(s, SkipWhitespace(s, after + 1), items)

\* scan_once
ParseValue(s, i) ==
    IF i > Len(s) THEN JsonError("Expecting value")
    ELSE IF s[i] = 34 THEN ParseString(s, i + 1, <<>>)
    ELSE IF s[i] = 123 THEN
        LET first == SkipWhitespace(s, i + 1) IN
        IF first <= Len(s) /\ s[first] = 125
        THEN Parsed(Dict(EmptyMap), first + 1)
        ELSE ParseMembers(s, first, EmptyMap)
    ELSE IF s[i] = 91 THEN
        LET first == SkipWhitespace(s, i + 1) IN
        IF first <= Len(s) /\ s[first] = 93
        THEN Parsed(List(<<>>), first + 1)
        ELSE ParseItems(s, first, <<>>)
    ELSE IF StartsWith(s, i, <<110, 117, 108, 108>> (* 'null' *)) THEN Parsed(None, i + 4)
    ELSE IF StartsWith(s, i, <<116, 114, 117, 101>> (* 'true' *)) THEN Parsed(PyBool(TRUE), i + 4)
    ELSE IF StartsWith(s, i, <<102, 97, 108, 115, 101>> (* 'false' *)) THEN Parsed(PyBool(FALSE), i + 5)
    ELSE IF StartsWith(s, i, <<78, 97, 78>> (* 'NaN' *))
    THEN Parsed([t |-> "float", v |-> <<78, 97, 78>> (* 'NaN' *)], i + 3)
    ELSE IF StartsWith(s, i, <<73, 110, 102, 105, 110, 105, 116, 121>> (* 'Infinity' *))
    THEN Parsed([t |-> "float", v |-> <<73, 110, 102, 105, 110, 105, 116, 121>> (* 'Infinity' *)], i + 8)
    ELSE IF StartsWith(s, i, <<45, 73, 110, 102, 105, 110, 105, 116, 121>> (* '-Infinity' *))
    THEN Parsed([t |-> "float", v |-> <<45, 73, 110, 102, 105, 110, 105, 116, 121>> (* '-Infinity' *)], i + 9)
    ELSE ParseNumber(s, i)

\* JSONDecoder.decode: one value between whitespace, and nothing after it.
json_decode(s) ==
    With(ParseValue(s, SkipWhitespace(s, 1)), LAMBDA val :
    IF val.raised THEN val
    ELSE IF SkipWhitespace(s, val.next) <= Len(s) THEN JsonError("Extra data")
    ELSE Return(val.value))

\* json.loads(bytes): the bytes are decoded as UTF-8, after a UTF-8 byte
\* order mark if there is one.  (detect_encoding's UTF-16 and UTF-32 cases
\* need a NUL byte or such a byte order mark in front: no payload of the
\* model has one.)
json_loads(bytes) ==
    With(utf8_decode(IF StartsWith(bytes, 1, <<239, 187, 191>>)
                     THEN SubSeq(bytes, 4, Len(bytes)) ELSE bytes),
         LAMBDA text : IF text.raised THEN text ELSE json_decode(text.value))

\* Lines 48-50: the text of the 'chara' chunk as a card.
decode_card(chara_data_b64) ==
    With(b64decode(chara_data_b64), LAMBDA chara_data_json :
    IF chara_data_json.raised THEN chara_data_json
    ELSE json_loads(chara_data_json.value))

---------------------------------------------------------------------------
(* The imaging library: an image has a mode, a size and its metadata (info, *)
(* the text chunks read from the file); PNG bytes hold the same.            *)

K_chara == <<99, 104, 97, 114, 97>> (* 'chara' *)

Image(mode, size, info) ==
    [t |-> "image", v |-> [mode |-> mode, size |-> size, info |-> info]]

PngBytes(mode, size, text) ==
    [t |-> "bytes",
     v |-> [format |-> "PNG", mode |-> mode, size |-> size, text |-> text]]

JunkBytes == [t |-> "bytes", v |-> [format |-> "none"]]

\* A message, as against the text of a card.
Message(m) == [t |-> "str", v |-> m]

\* A faulty Image.open, which identifies any content as an image.
image_open_anything(content) == Return(Image("RGB", <<1, 1>>, EmptyMap))

\* Image.open(fp) on the content of a buffer or of a stream
image_open(content) ==
    IF content.format = "PNG"
    THEN Return(Image(content.mode, content.size, content.text))
    ELSE Raise("UnidentifiedImageError", "cannot identify image file")

\* The modes the PNG writer accepts.
PngModes == {"1", "L", "LA", "I", "I;16", "P", "RGB", "RGBA"}

\* image.save(output, format='PNG', pnginfo=pnginfo); output.getvalue()
image_save(image, pnginfo) ==
    IF image.t # "image"
    THEN Raise("AttributeError", "object has no attribute 'save'")
    ELSE IF image.v.mode \notin PngModes
    THEN Raise("OSError", "cannot write mode " \o image.v.mode \o " as PNG")
    ELSE Return(PngBytes(image.v.mode, image.v.size, pnginfo))

\* Line 183: Image.new('RGB', (400, 600), color='#282a36')
DefaultImage == Image("RGB", <<400, 600>>, EmptyMap)

---------------------------------------------------------------------------
(* import_character_card *)

ImportResult(success, error, image, character_data) ==
    Return([success |-> success, error |-> error, image |-> image,
            character_data |-> character_data])

NotFoundMessage ==
    "No character card metadata found in image. Make sure this is a valid Tavern/SillyTavern character card."

\* A faulty not-found branch, which drops the opened image.
NotFoundWithoutImage(img) ==
    ImportResult(FALSE, Message(NotFoundMessage), None, None)

\* Lines 39-45: the image holds no 'chara' metadata.
NotFoundResult(img) ==
    ImportResult(FALSE, Message(NotFoundMessage), img, None)

\* Lines 55-60
SuccessResult(img, mapped_data) == ImportResult(TRUE, None, img, mapped_data)

\* A faulty except clause, which lets the exception through.
ImportFailureReraised(e) == e

\* Lines 62-68: the except clause, for the exception e.
ImportFailure(e) ==
    ImportResult(FALSE, Message("Error importing character card: " \o e.msg),
                 None, None)

import_character_card(image_data, user_name) ==
    With(IF image_data.t = "bytes" THEN image_open(image_data.v)
         ELSE image_open(image_data.v),
         LAMBDA img :
    IF img.raised THEN ImportFailure(img)
    ELSE IF K_chara \notin DOMAIN img.value.v.info
    THEN NotFoundResult(img.value)
    ELSE With(decode_card(img.value.v.info[K_chara]), LAMBDA character_card :
    IF character_card.raised THEN ImportFailure(character_card)
    ELSE With(map_tavern_to_internal(character_card.value, user_name),
              LAMBDA mapped_data :
    IF mapped_data.raised THEN ImportFailure(mapped_data)
    ELSE SuccessResult(img.value, mapped_data.value))))

---------------------------------------------------------------------------
(* export_character_card *)

\* A faulty except clause, which raises the cause as it is.
ExportFailureUnwrapped(e) == e

\* Lines 196-197: the except clause, for the exception e.
ExportFailure(e) ==
    Raise("Exception", "Error exporting character card: " \o e.msg)

export_character_card(character_data, image) ==
    With(map_internal_to_tavern(character_data), LAMBDA tavern_card :
    IF tavern_card.raised THEN ExportFailure(tavern_card)
    ELSE With(encode_card(tavern_card.value), LAMBDA card_b64 :
    IF card_b64.raised THEN ExportFailure(card_b64)
    ELSE With(image_save(IF image = None THEN DefaultImage ELSE image,
                         K_chara :> card_b64.value),
              LAMBDA saved :
    IF saved.raised THEN ExportFailure(saved)
    ELSE Return(saved.value))))

---------------------------------------------------------------------------
(* The inputs of the calls *)

MaxPieces == 2

TextPieces ==
    { <<123, 123, 99, 104, 97, 114, 125, 125>> (* '{{char}}' *), <<123, 123, 67, 72, 65, 82, 125, 125>> (* '{{CHAR}}' *), <<123, 123, 117, 115, 101, 114, 125, 125>> (* '{{user}}' *), <<123, 123, 85, 115, 101, 114, 125, 125>> (* '{{User}}' *),
      <<123, 123, 117>> (* '{{u' *), <<101, 114, 125, 125>> (* 'er}}' *), <<123, 123>> (* '{{' *), <<32, 108, 105, 107, 101, 115, 32>> (* ' likes ' *), <<104, 105>> (* 'hi' *) }

RECURSIVE TextsOf(_)
TextsOf(n) ==
    IF n = 0 THEN { <<>> }
    ELSE LET shorter == TextsOf(n - 1) IN
         shorter \cup { t \o p : t \in shorter, p \in TextPieces }

Texts == TextsOf(MaxPieces)

Names ==
    { <<65, 100, 97>> (* 'Ada' *), <<66, 111, 98>> (* 'Bob' *), <<115>> (* 's' *), <<>> (* '' *), <<123, 123, 117, 115, 101, 114, 125, 125>> (* '{{user}}' *), <<123, 123, 99, 104, 97, 114, 125, 125>> (* '{{char}}' *),
      <<67, 58, 92>> (* 'C:\\' *), <<97, 92, 110, 98>> (* 'a\\nb' *), <<92, 92>> (* '\\\\' *) }

UserNames == { Str(<<89, 79, 85>> (* 'YOU' *)), Str(<<66, 111, 98>> (* 'Bob' *)), Str(<<123, 123, 99, 104, 97, 114, 125, 125>> (* '{{char}}' *)) }

\* A dictionary of the fields that are given: `fields` maps every key to a
\* value or to Absent.
Absent == [t |-> "absent", v |-> <<>>]

DictOf(fields) ==
    Dict([k \in { key \in DOMAIN fields : fields[key] # Absent } |-> fields[k]])

\* Tavern cards: every field absent, empty or a text, with and without
\* placeholders; the card bare or wrapped under 'data' beside outer fields of
\* its own.
BareCards ==
    { DictOf((K_name :> name) @@ (K_personality :> personality)
             @@ (K_description :> description) @@ (K_first_mes :> first_mes)
             @@ (K_greeting :> greeting) @@ (K_scenario :> scenario)
             @@ (K_mes_example :> Absent)) :
        name \in { Absent, Str(<<65, 100, 97>> (* 'Ada' *)), Str(<<67, 58, 92>> (* 'C:\\' *)) },
        personality \in { Absent, Str(<<>>), Str(<<107, 105, 110, 100>> (* 'kind' *)),
                          Str(<<123, 123, 99, 104, 97, 114, 125, 125, 32, 105, 115, 32, 107, 105, 110, 100>> (* '{{char}} is kind' *)), None },
        description \in { Absent, Str(<<>>), Str(<<115, 109, 97, 114, 116, 32, 108, 105, 107, 101, 32, 123, 123, 85, 115, 101, 114, 125, 125>> (* 'smart like {{User}}' *)) },
        first_mes \in { Absent, Str(<<72, 105, 32, 123, 123, 117, 115, 101, 114, 125, 125, 44, 32, 73, 32, 97, 109, 32, 123, 123, 67, 72, 65, 82, 125, 125>> (* 'Hi {{user}}, I am {{CHAR}}' *)) },
        greeting \in { Absent, Str(<<89, 111>> (* 'Yo' *)) },
        scenario \in { Absent, Str(<<123, 123, 99, 104, 97, 114, 125, 125, 32, 109, 101, 101, 116, 115, 32, 123, 123, 117, 115, 101, 114, 125, 125>> (* '{{char}} meets {{user}}' *)) } }

WrappedCards ==
    { Dict((K_data :> inner) @@ (K_name :> Str(<<79, 117, 116, 101, 114>> (* 'Outer' *)))
           @@ (K_personality :> Str(<<111, 117, 116, 101, 114>> (* 'outer' *)))) :
        inner \in { c \in BareCards : K_greeting \notin DOMAIN c.v } }

OddCards ==
    { None, List(<<>>), List(<<Str(K_data)>>), Str(<<120, 100, 97, 116, 97, 120>> (* 'xdatax' *)), Str(<<120>> (* 'x' *)),
      PyInt(7), Dict(K_data :> Str(<<120>> (* 'x' *))), Dict(K_data :> None),
      Dict((K_name :> Str(<<65, 100, 97>> (* 'Ada' *))) @@ (K_personality :> PyInt(5))),
      Dict((K_name :> PyInt(5)) @@ (K_scenario :> Str(<<123, 123, 99, 104, 97, 114, 125, 125>> (* '{{char}}' *)))),
      Dict((K_name :> Str(<<65, 100, 97>> (* 'Ada' *))) @@ (K_first_mes :> List(<<PyInt(1)>>))),
      Dict((K_name :> Str(<<79, 117, 116, 101, 114>> (* 'Outer' *)))
           @@ (K_data :> Dict((K_name :> Str(<<73, 110>> (* 'In' *)))
                              @@ (K_scenario :> Str(<<123, 123, 99, 104, 97, 114, 125, 125, 32, 119, 97, 105, 116, 115>> (* '{{char}} waits' *)))
                              @@ (K_data :> Dict(K_name :> Str(<<68, 101, 101, 112>> (* 'Deep' *))))))) }

TavernCards == BareCards \cup WrappedCards \cup OddCards

\* Internal records, and arguments that are no records or cannot be
\* serialized.
Records ==
    { DictOf((K_ai_name :> ai_name) @@ (K_persona_desc :> persona_desc)
             @@ (K_greeting :> greeting) @@ (K_scenario :> scenario)
             @@ (K_mes_example :> mes_example)) :
        ai_name \in { Absent, Str(<<65, 100, 97>> (* 'Ada' *)), Str(<<67, 58, 92>> (* 'C:\\' *)),
                      Str(<<233, 8364, 128512>>) },
        persona_desc \in { Absent, Str(<<>>), Str(<<107, 105, 110, 100>> (* 'kind' *)),
                           Str(<<123, 123, 99, 104, 97, 114, 125, 125, 32, 108, 105, 107, 101, 115, 32, 34, 123, 123, 117, 115, 101, 114, 125, 125, 34>> (* '{{char}} likes \"{{user}}\"' *)) },
        greeting \in { Absent, Str(<<72, 105, 32, 123, 123, 85, 115, 101, 114, 125, 125>> (* 'Hi {{User}}' *)) },
        scenario \in { Absent, Str(<<97, 92, 110, 98>> (* 'a\\nb' *)) },
        mes_example \in { Absent, Str(<<60, 83, 84, 65, 82, 84, 62, 10, 123, 123, 117, 115, 101, 114, 125, 125, 58, 32, 104, 105>> (* '<START>\n{{user}}: hi' *)) } }

OddRecords ==
    { None, Str(<<65, 100, 97>> (* 'Ada' *)),
      Dict((K_ai_name :> Str(<<65, 100, 97>> (* 'Ada' *))) @@ (K_persona_desc :> PySet)),
      Dict((K_ai_name :> Str(<<55296>>)) @@ (K_persona_desc :> Str(<<107, 105, 110, 100>> (* 'kind' *)))) }

ExportImages ==
    { None, Image("RGB", <<64, 64>>, EmptyMap),
      Image("RGBA", <<64, 64>>, K_chara :> <<111, 108, 100>> (* 'old' *)),
      Image("CMYK", <<64, 64>>, EmptyMap) }

\* The text of a 'chara' chunk that holds the JSON text `json`.
ChunkOf(json) == b64encode(utf8_encode(json).value)

\* Image data for import: no image, images without the chunk, and images
\* whose chunk is no base64, no UTF-8, no JSON, no mapping, or a card.
ChunkTexts ==
    { <<33, 33, 33>> (* '!!!' *), <<97, 98, 99>> (* 'abc' *), <<97>> (* 'a' *), <<233>>, <<119, 119, 61, 61>> (* 'ww==' *),
      ChunkOf(<<>> (* '' *)), ChunkOf(<<123>> (* '{' *)), ChunkOf(<<123, 34, 110, 97, 109, 101, 34, 58, 32, 34, 65, 100, 97, 34, 125, 32, 120>> (* '{\"name\": \"Ada\"} x' *)),
      ChunkOf(<<91, 93>> (* '[]' *)), ChunkOf(<<34, 100, 97, 116, 97, 34>> (* '\"data\"' *)), ChunkOf(<<55>> (* '7' *)),
      ChunkOf(<<110, 117, 108, 108>> (* 'null' *)), ChunkOf(<<91, 34, 100, 97, 116, 97, 34, 93>> (* '[\"data\"]' *)),
      ChunkOf(<<123, 125>> (* '{}' *)),
      ChunkOf(<<123, 34, 110, 97, 109, 101, 34, 58, 32, 34, 65, 100, 97, 34, 44, 32, 34, 112, 101, 114, 115, 111, 110, 97, 108, 105, 116, 121, 34, 58, 32, 34, 123, 123, 99, 104, 97, 114, 125, 125, 32, 105, 115, 32, 107, 105, 110, 100, 34, 44, 32, 34, 100, 101, 115, 99, 114, 105, 112, 116, 105, 111, 110, 34, 58, 32, 34, 115, 109, 97, 114, 116, 34, 44, 32, 34, 102, 105, 114, 115, 116, 95, 109, 101, 115, 34, 58, 32, 34, 72, 105, 32, 123, 123, 117, 115, 101, 114, 125, 125, 34, 125>> (* '{\"name\": \"Ada\", \"personality\": \"{{char}} is kind\", \"description\": \"smart\", \"first_mes\": \"Hi {{user}}\"}' *)),
      ChunkOf(<<32, 123, 34, 115, 112, 101, 99, 34, 58, 34, 99, 104, 97, 114, 97, 95, 99, 97, 114, 100, 95, 118, 50, 34, 44, 34, 100, 97, 116, 97, 34, 58, 123, 34, 110, 97, 109, 101, 34, 58, 34, 88, 92, 117, 48, 48, 101, 57, 34, 44, 34, 116, 97, 103, 115, 34, 58, 91, 34, 97, 34, 44, 49, 93, 125, 44, 34, 110, 97, 109, 101, 34, 58, 34, 79, 117, 116, 101, 114, 34, 125, 10>> (* ' {\"spec\":\"chara_card_v2\",\"data\":{\"name\":\"X\\u00e9\",\"tags\":[\"a\",1]},\"name\":\"Outer\"}\n' *)),
      ChunkOf(<<123, 34, 110, 97, 109, 101, 34, 58, 32, 34, 67, 58, 92, 92, 34, 44, 32, 34, 100, 101, 115, 99, 114, 105, 112, 116, 105, 111, 110, 34, 58, 32, 34, 100, 34, 125>> (* '{\"name\": \"C:\\\\\", \"description\": \"d\"}' *)),
      ChunkOf(<<123, 34, 110, 97, 109, 101, 34, 58, 32, 53, 44, 32, 34, 100, 101, 115, 99, 114, 105, 112, 116, 105, 111, 110, 34, 58, 32, 34, 100, 34, 125>> (* '{\"name\": 5, \"description\": \"d\"}' *)),
      ChunkOf(<<123, 34, 100, 97, 116, 97, 34, 58, 32, 34, 120, 34, 125>> (* '{\"data\": \"x\"}' *)) }

ImageData ==
    { JunkBytes, [t |-> "file", v |-> [format |-> "none"]],
      PngBytes("RGB", <<64, 64>>, EmptyMap),
      PngBytes("RGB", <<64, 64>>, <<84, 105, 116, 108, 101>> (* 'Title' *) :> <<99, 104, 97, 114, 97>> (* 'chara' *)),
      [t |-> "file", v |-> PngBytes("L", <<8, 8>>, EmptyMap).v] }
    \cup { PngBytes("RGB", <<64, 64>>, K_chara :> chunk) : chunk \in ChunkTexts }
    \cup { [t |-> "file",
            v |-> PngBytes("RGBA", <<8, 8>>,
                           (K_chara :> chunk) @@ (<<84, 105, 116, 108, 101>> (* 'Title' *) :> <<120>> (* 'x' *))).v] :
           chunk \in ChunkTexts }

---------------------------------------------------------------------------
(* The calls *)

Idle == [fn |-> "idle"]

NoOrigin == [fn |-> "none"]

Init ==
    /\ call = Idle
    /\ result = Return(None)
    /\ origin = NoOrigin

ReplacePlaceholders ==
    /\ call.fn = "idle"
    /\ \E text \in { Str(t) : t \in Texts } \cup { None },
          char_name \in Names, user_name \in Names :
          /\ call' = [fn |-> "replace_placeholders", text |-> text,
                      char_name |-> Str(char_name),
                      user_name |-> Str(user_name)]
          /\ result' = replace_placeholders(text, Str(char_name),
                                            Str(user_name))
    /\ origin' = NoOrigin

MapTavernToInternal ==
    /\ call.fn = "idle"
    /\ \E tavern_card \in TavernCards, user_name \in UserNames :
          /\ call' = [fn |-> "map_tavern_to_internal",
                      tavern_card |-> tavern_card, user_name |-> user_name]
          /\ result' = map_tavern_to_internal(tavern_card, user_name)
    /\ origin' = NoOrigin

MapInternalToTavern ==
    /\ call.fn = "idle"
    /\ \E character_data \in Records \cup OddRecords :
          /\ call' = [fn |-> "map_internal_to_tavern",
                      character_data |-> character_data]
          /\ result' = map_internal_to_tavern(character_data)
    /\ origin' = NoOrigin

\* The card map_internal_to_tavern returned is mapped back.
MapBack ==
    /\ call.fn = "map_internal_to_tavern"
    /\ ~result.raised
    /\ \E user_name \in UserNames :
          /\ call' = [fn |-> "map_tavern_to_internal",
                      tavern_card |-> result.value, user_name |-> user_name]
          /\ result' = map_tavern_to_internal(result.value, user_name)
    /\ origin' = call

ExportCharacterCard ==
    /\ call.fn = "idle"
    /\ \E character_data \in Records \cup OddRecords, image \in ExportImages :
          /\ call' = [fn |-> "export_character_card",
                      character_data |-> character_data, image |-> image]
          /\ result' = export_character_card(character_data, image)
    /\ origin' = NoOrigin

ImportCharacterCard ==
    /\ call.fn = "idle"
    /\ \E image_data \in ImageData, user_name \in UserNames :
          /\ call' = [fn |-> "import_character_card",
                      image_data |-> image_data, user_name |-> user_name]
          /\ result' = import_character_card(image_data, user_name)
    /\ origin' = NoOrigin

\* The bytes export_character_card returned are imported.
ImportExported ==
    /\ call.fn = "export_character_card"
    /\ ~result.raised
    /\ \E user_name \in UserNames :
          /\ call' = [fn |-> "import_character_card",
                      image_data |-> result.value, user_name |-> user_name]
          /\ result' = import_character_card(result.value, user_name)
    /\ origin' = call

\* The caller takes the result; the next call starts from scratch.
Done ==
    /\ call.fn # "idle"
    /\ call' = Idle
    /\ result' = Return(None)
    /\ origin' = NoOrigin

Next ==
    \/ ReplacePlaceholders
    \/ MapTavernToInternal
    \/ MapInternalToTavern
    \/ MapBack
    \/ ExportCharacterCard
    \/ ImportCharacterCard
    \/ ImportExported
    \/ Done

Spec == Init /\ [][Next]_vars

---------------------------------------------------------------------------
(* The properties of import_character_card *)

ResultKeys == {"success", "error", "image", "character_data"}

IsPng(image_data) == image_data.v.format = "PNG"

HasChara(image_data) == K_chara \in DOMAIN image_data.v.text

\* Whether a step of the import fails for these arguments: the data are no
\* image, there is no 'chara' chunk, the chunk does not decode to JSON, or
\* the decoded value cannot be mapped.
ImportFails(image_data, user_name) ==
    \/ ~IsPng(image_data)
    \/ ~HasChara(image_data)
    \/ With(decode_card(image_data.v.text[K_chara]), LAMBDA card :
           \/ card.raised
           \/ map_tavern_to_internal(card.value, user_name).raised)

\* C1: import_character_card never raises.  Whatever the image data, it
\* returns a result with exactly the keys success, error, image and
\* character_data, and whenever a step of it fails, success is false and
\* error is a string (not None).
C1_ImportNeverRaises ==
    call.fn = "import_character_card" =>
        /\ ~result.raised
        /\ DOMAIN result.value = ResultKeys
        /\ result.value.success \in BOOLEAN
        /\ ImportFails(call.image_data, call.user_name)
               => ~result.value.success
        /\ ~result.value.success
               => result.value.error.t = "str" /\ result.value.error # None

\* C1 happens: a 'chara' chunk that decodes to JSON which is no mapping, and
\* the import reports the failure in its result.
C1_Witness ==
    /\ call.fn = "import_character_card"
    /\ IsPng(call.image_data) /\ HasChara(call.image_data)
    /\ With(decode_card(call.image_data.v.text[K_chara]), LAMBDA card :
           ~card.raised /\ card.value.t = "list")
    /\ ~result.raised
    /\ ~result.value.success
    /\ result.value.error.t = "str"

\* C2: for an image without the key 'chara' in its metadata the result is
\* success=false, the not-found message, character_data=None and the opened
\* image; a failure after the chunk was found has image=None and another
\* message, so the two can be told apart.
C2_NotFoundKeepsImage ==
    call.fn = "import_character_card" /\ IsPng(call.image_data) =>
        IF ~HasChara(call.image_data)
        THEN /\ result
                  = Return([success |-> FALSE,
                            error |-> Message(NotFoundMessage),
                            image |-> Image(call.image_data.v.mode,
                                            call.image_data.v.size,
                                            call.image_data.v.text),
                            character_data |-> None])
             /\ result.value.image # None
             /\ result.value.error # None
        ELSE ~result.value.success
                 => /\ result.value.image = None
                    /\ result.value.error # Message(NotFoundMessage)

\* C2 happens: an image with other metadata and no 'chara' was imported, and
\* the result holds the opened image.
C2_Witness ==
    /\ call.fn = "import_character_card"
    /\ IsPng(call.image_data)
    /\ ~HasChara(call.image_data)
    /\ DOMAIN call.image_data.v.text # {}
    /\ ~result.value.success
    /\ result.value.image.t = "image"

\* C3: for data that are not a valid image the result is success=false,
\* image=None, character_data=None and an error string.
C3_NotAnImage ==
    call.fn = "import_character_card" /\ ~IsPng(call.image_data) =>
        /\ ~result.raised
        /\ result.value.success = FALSE
        /\ result.value.image = None
        /\ result.value.character_data = None
        /\ result.value.error.t = "str"
        /\ result.value.error # None

\* C3 happens: bytes that are no image were imported.
C3_Witness ==
    /\ call.fn = "import_character_card"
    /\ call.image_data = JunkBytes
    /\ result.value.success = FALSE
    /\ result.value.image = None

---------------------------------------------------------------------------
(* The properties of export_character_card *)

\* An internal record: a dictionary whose fields are texts.
IsRecord(x) ==
    /\ x.t = "dict"
    /\ \A k \in DOMAIN x.v :
           /\ x.v[k].t = "str"
           /\ \A i \in 1..Len(x.v[k].v) : ~IsSurrogate(x.v[k].v[i])

\* The first step of the export that fails, if one does: mapping the
\* record, serializing and encoding the card, writing the PNG.
ExportCause(character_data, image) ==
    With(map_internal_to_tavern(character_data), LAMBDA tavern_card :
    IF tavern_card.raised THEN tavern_card
    ELSE With(encode_card(tavern_card.value), LAMBDA card_b64 :
    IF card_b64.raised THEN card_b64
    ELSE image_save(IF image = None THEN DefaultImage ELSE image,
                    K_chara :> card_b64.value)))

\* C4: export_character_card returns PNG bytes when every step succeeds;
\* when a step fails it raises an Exception whose message is 'Error
\* exporting character card: ' followed by the message of the cause, and
\* returns nothing.
C4_ExportWrapsFailures ==
    call.fn = "export_character_card" =>
        With(ExportCause(call.character_data, call.image), LAMBDA cause :
            IF cause.raised
            THEN result = Raise("Exception",
                                "Error exporting character card: "
                                    \o cause.msg)
            ELSE /\ ~result.raised
                 /\ result.value.t = "bytes"
                 /\ result.value.v.format = "PNG")

\* C4 happens: the PNG writer refused the image, and the export raised the
\* wrapped failure.
C4_Witness ==
    /\ call.fn = "export_character_card"
    /\ IsRecord(call.character_data)
    /\ call.image # None
    /\ call.image.v.mode \notin PngModes
    /\ result.raised
    /\ result.type = "Exception"

---------------------------------------------------------------------------
(* Export followed by import *)

\* The text base64(UTF-8(JSON(card))) of a card that can be serialized.
WireText(card) == b64encode(utf8_encode(json_dumps(card).value).value)

\* C5: for an internal record r, export_character_card(r, None) yields an
\* image whose 'chara' chunk is base64(UTF-8(JSON(card))) for
\* card = map_internal_to_tavern(r); decoding the chunk gives a card equal
\* to it, with spec 'chara_card_v2'; and import_character_card on the
\* exported bytes returns success=true with raw_card equal to that card.
C5_ExportImportRoundTrip ==
    /\ (/\ call.fn = "export_character_card"
        /\ call.image = None
        /\ IsRecord(call.character_data))
           => With(map_internal_to_tavern(call.character_data).value,
                   LAMBDA card :
                  /\ ~result.raised
                  /\ result.value.v.text = (K_chara :> WireText(card))
                  /\ decode_card(result.value.v.text[K_chara]) = Return(card)
                  /\ card.v[K_spec] = Str(<<99, 104, 97, 114, 97, 95, 99, 97, 114, 100, 95, 118, 50>> (* 'chara_card_v2' *)))
    /\ (/\ call.fn = "import_character_card"
        /\ origin.fn = "export_character_card"
        /\ origin.image = None
        /\ IsRecord(origin.character_data))
           => /\ ~result.raised
              /\ result.value.success = TRUE
              /\ result.value.character_data.v[K_raw_card]
                     = map_internal_to_tavern(origin.character_data).value

\* The input on which C5 fails: the record's ai_name is 'C:\', the export
\* succeeds, and the import of the exported bytes reports a failure.
C5_Witness ==
    /\ call.fn = "import_character_card"
    /\ origin.fn = "export_character_card"
    /\ origin.image = None
    /\ origin.character_data
           = Dict((K_ai_name :> Str(<<67, 58, 92>> (* 'C:\\' *)))
                  @@ (K_persona_desc :> Str(<<107, 105, 110, 100>> (* 'kind' *))))
    /\ call.user_name = Str(<<89, 79, 85>> (* 'YOU' *))
    /\ result
           = Return([success |-> FALSE,
                     error |-> Message("Error importing character card: bad escape (end of pattern)"),
                     image |-> None,
                     character_data |-> None])

---------------------------------------------------------------------------
(* The properties of replace_placeholders *)

\* ASCII lower case.
Lower(c) == IF c \in 65..90 THEN c + 32 ELSE c

\* Whether the token stands in the text at index i, in any letter case.
TokenAt(text, i, token) ==
    /\ i + Len(token) - 1 <= Len(text)
    /\ \A k \in 1..Len(token) : Lower(text[i + k - 1]) = Lower(token[k])

HasToken(text, token) == \E i \in 1..Len(text) : TokenAt(text, i, token)

\* The text with every occurrence of the token, from the left, replaced by
\* the name as it is.
RECURSIVE LiteralReplace(_, _, _, _)
LiteralReplace(text, i, token, name) ==
    IF i > Len(text) THEN <<>>
    ELSE IF TokenAt(text, i, token)
    THEN name \o LiteralReplace(text, i + Len(token), token, name)
    ELSE <<text[i]>> \o LiteralReplace(text, i + 1, token, name)

\* The text with every {{char}} and every {{user}} of the text itself
\* replaced by the names as they are, in one pass: what is inserted is not
\* looked at again.
RECURSIVE Substituted(_, _, _, _)
Substituted(text, i, char_name, user_name) ==
    IF i > Len(text) THEN <<>>
    ELSE IF TokenAt(text, i, TokenChar)
    THEN char_name
             \o Substituted(text, i + Len(TokenChar), char_name, user_name)
    ELSE IF TokenAt(text, i, TokenUser)
    THEN user_name
             \o Substituted(text, i + Len(TokenUser), char_name, user_name)
    ELSE <<text[i]>> \o Substituted(text, i + 1, char_name, user_name)

\* C6: replace_placeholders replaces every occurrence of {{char}}, in any
\* letter case, with char_name and every occurrence of {{user}}, in any
\* letter case, with user_name; a text with neither token is returned
\* unchanged; an empty text or None is returned unchanged, without error.
C6_ReplacesEveryToken ==
    call.fn = "replace_placeholders" =>
        IF call.text = None \/ call.text = Str(<<>>)
        THEN result = Return(call.text)
        ELSE /\ result
                  = Return(Str(LiteralReplace(
                        LiteralReplace(call.text.v, 1, TokenChar,
                                       call.char_name.v),
                        1, TokenUser, call.user_name.v)))
             /\ (~HasToken(call.text.v, TokenChar)
                 /\ ~HasToken(call.text.v, TokenUser))
                    => result = Return(call.text)

\* The input on which C6 fails: a text without tokens and a char_name that
\* ends with a backslash; the call raises instead of returning the text.
C6_Witness ==
    /\ call.fn = "replace_placeholders"
    /\ call.text = Str(<<104, 105>> (* 'hi' *))
    /\ call.char_name = Str(<<67, 58, 92>> (* 'C:\\' *))
    /\ call.user_name = Str(<<66, 111, 98>> (* 'Bob' *))
    /\ result = Raise("error", "bad escape (end of pattern)")

\* C7: the replacement is literal and not recursive: whatever the names,
\* also names that hold {{char}} or {{user}}, each token of the text is
\* replaced by the name as it is, and a token inside an inserted name is
\* not expanded again.
C7_LiteralNotRecursive ==
    (call.fn = "replace_placeholders" /\ call.text # None) =>
        result = Return(Str(Substituted(call.text.v, 1, call.char_name.v,
                                        call.user_name.v)))

\* The input on which C7 fails: the char_name is '{{user}}', and the result
\* holds the user_name where the claim has the char_name.
C7_Witness ==
    /\ call.fn = "replace_placeholders"
    /\ call.text = Str(<<123, 123, 99, 104, 97, 114, 125, 125>> (* '{{char}}' *))
    /\ call.char_name = Str(<<123, 123, 117, 115, 101, 114, 125, 125>> (* '{{user}}' *))
    /\ call.user_name = Str(<<66, 111, 98>> (* 'Bob' *))
    /\ result = Return(Str(<<66, 111, 98>> (* 'Bob' *)))

---------------------------------------------------------------------------
(* The properties of map_tavern_to_internal *)

\* The card the fields are read from: the value of 'data' if the card has
\* that key.
InnerCard(tavern_card) ==
    IF K_data \in DOMAIN tavern_card.v THEN tavern_card.v[K_data]
    ELSE tavern_card

TextKeys ==
    {K_personality, K_description, K_first_mes, K_greeting, K_scenario,
     K_mes_example}

\* A Tavern card: a dictionary, bare or wrapped, whose name is a text if it
\* has one and whose other text fields are texts or None.
IsTavernCard(tavern_card) ==
    /\ tavern_card.t = "dict"
    /\ InnerCard(tavern_card).t = "dict"
    /\ \A k \in DOMAIN InnerCard(tavern_card).v :
           /\ k = K_name => InnerCard(tavern_card).v[k].t = "str"
           /\ k \in TextKeys => InnerCard(tavern_card).v[k].t \in {"str", "none"}

\* The text of a field, empty if the field is absent, None or empty.
TextOf(card, key) ==
    IF key \in DOMAIN card.v /\ card.v[key].t = "str" THEN card.v[key].v
    ELSE <<>>

\* The non-empty ones of personality and description, in that order, with
\* one space between them, or the fallback if there is none.
ExpectedPersona(card) ==
    LET personality == TextOf(card, K_personality)
        description == TextOf(card, K_description)
    IN  IF personality # <<>> /\ description # <<>>
        THEN personality \o <<32>> \o description
        ELSE IF personality # <<>> THEN personality
        ELSE IF description # <<>> THEN description
        ELSE <<65, 110, 32, 65, 73, 32, 99, 111, 109, 112, 97, 110, 105, 111, 110>> (* 'An AI companion' *)

ExpectedAiName(card) ==
    IF K_name \in DOMAIN card.v THEN card.v[K_name] ELSE Str(<<66, 79, 84>> (* 'BOT' *))

C9_UnwrapAndRawCard ==
    (call.fn = "map_tavern_to_internal" /\ call.tavern_card.t = "dict") =>
        IF K_data \in DOMAIN call.tavern_card.v
        THEN /\ result
                  = map_tavern_to_internal(
                        Dict(K_data :> call.tavern_card.v[K_data]),
                        call.user_name)
             /\ ~result.raised
                    => result.value.v[K_raw_card] = call.tavern_card.v[K_data]
        ELSE ~result.raised
                 => result.value.v[K_raw_card] = call.tavern_card

\* C9 happens: a wrapped card with outer fields of its own was mapped; the
\* name is the inner one and raw_card still holds the placeholder that the
\* result's scenario no longer has.
C9_Witness ==
    /\ call.fn = "map_tavern_to_internal"
    /\ call.tavern_card.t = "dict"
    /\ K_data \in DOMAIN call.tavern_card.v
    /\ TextOf(call.tavern_card, K_name) = <<79, 117, 116, 101, 114>> (* 'Outer' *)
    /\ ~result.raised
    /\ result.value.v[K_ai_name] = Str(<<65, 100, 97>> (* 'Ada' *))
    /\ result.value.v[K_scenario] = Str(<<65, 100, 97, 32, 109, 101, 101, 116, 115, 32, 89, 79, 85>> (* 'Ada meets YOU' *))
    /\ TextOf(result.value.v[K_raw_card], K_scenario)
           = <<123, 123, 99, 104, 97, 114, 125, 125, 32, 109, 101, 101, 116, 115, 32, 123, 123, 117, 115, 101, 114, 125, 125>> (* '{{char}} meets {{user}}' *)

---------------------------------------------------------------------------
(* The properties of map_internal_to_tavern *)

\* The field of a record, the empty string when the record has none.
FieldOrEmpty(r, key) == IF key \in DOMAIN r.v THEN r.v[key] ELSE Str(<<>>)

\* C10: for every internal record r the exported card has description and
\* personality equal to r.persona_desc, first_mes equal to r.greeting, and
\* scenario and mes_example as they are in r, each the empty string when
\* absent, with no placeholder replaced; and mapping that card back does not
\* give r.persona_desc but what the substitution makes of the persona
\* joined with itself, so the two mappings are not inverses.
C10_ExportDuplicatesPersona ==
    /\ (call.fn = "map_internal_to_tavern" /\ IsRecord(call.character_data))
           => /\ ~result.raised
              /\ result.value.v[K_description]
                     = FieldOrEmpty(call.character_data, K_persona_desc)
              /\ result.value.v[K_personality]
                     = FieldOrEmpty(call.character_data, K_persona_desc)
              /\ result.value.v[K_first_mes]
                     = FieldOrEmpty(call.character_data, K_greeting)
              /\ result.value.v[K_scenario]
                     = FieldOrEmpty(call.character_data, K_scenario)
              /\ result.value.v[K_mes_example]
                     = FieldOrEmpty(call.character_data, K_mes_example)
    /\ (/\ call.fn = "map_tavern_to_internal"
        /\ origin.fn = "map_internal_to_tavern"
        /\ IsRecord(origin.character_data)
        /\ ~result.raised)
           => With(FieldOrEmpty(origin.character_data, K_persona_desc),
                   LAMBDA persona_desc :
                  /\ result.value.v[K_persona_desc] # persona_desc
                  /\ persona_desc.v # <<>>
                         => Return(result.value.v[K_persona_desc])
                                = replace_placeholders(
                                      Str(persona_desc.v \o <<32>>
                                              \o persona_desc.v),
                                      result.value.v[K_ai_name],
                                      call.user_name))

\* C10 happens: a record whose persona has placeholders was exported and
\* the card mapped back; the persona comes back twice, substituted.
C10_Witness ==
    /\ call.fn = "map_tavern_to_internal"
    /\ origin.fn = "map_internal_to_tavern"
    /\ IsRecord(origin.character_data)
    /\ K_ai_name \in DOMAIN origin.character_data.v
    /\ origin.character_data.v[K_ai_name] = Str(<<65, 100, 97>> (* 'Ada' *))
    /\ K_persona_desc \in DOMAIN origin.character_data.v
    /\ origin.character_data.v[K_persona_desc]
           = Str(<<123, 123, 99, 104, 97, 114, 125, 125, 32, 108, 105, 107, 101, 115, 32, 34, 123, 123, 117, 115, 101, 114, 125, 125, 34>> (* '{{char}} likes \"{{user}}\"' *))
    /\ call.user_name = Str(<<66, 111, 98>> (* 'Bob' *))
    /\ result
           = Return(Dict(
                 (K_ai_name :> Str(<<65, 100, 97>> (* 'Ada' *)))
                 @@ (K_persona_desc
                         :> Str(<<65, 100, 97, 32, 108, 105, 107, 101, 115, 32, 34, 66, 111, 98, 34, 32, 65, 100, 97, 32, 108, 105, 107, 101, 115, 32, 34, 66, 111, 98, 34>> (* 'Ada likes \"Bob\" Ada likes \"Bob\"' *)))
                 @@ (K_greeting :> FieldOrEmpty(origin.character_data, K_greeting))
                 @@ (K_scenario :> FieldOrEmpty(origin.character_data, K_scenario))
                 @@ (K_mes_example :> Str(<<>>))
                 @@ (K_raw_card :> call.tavern_card)))
    /\ K_mes_example \notin DOMAIN origin.character_data.v
    /\ K_greeting \notin DOMAIN origin.character_data.v

=============================================================================
